---- MODULE Spec2Model ----
(***************************************************************************)
(* Chroma-Deck (src/chroma_deck.py): the asyncio CLI client of the         *)
(* Chroma-Core hub.  hub_client owns the hub connection and its command    *)
(* loop, room_chat owns one room connection and starts the receiver task.  *)
(*                                                                         *)
(* Text (user lines, room names, addresses, room messages) is a sequence   *)
(* of one-character strings, so that strip, startswith and slicing are     *)
(* computed as Python computes them.                                        *)
(*                                                                         *)
(* The event loop is single-threaded: a step of the model is the code one  *)
(* task runs between two suspension points (await).  Which ready task runs *)
(* next, and when the network delivers, is nondeterministic.               *)
(* CancelledError is a BaseException (Python >= 3.8): `except Exception`   *)
(* in receiver does not catch it.                                           *)
(***************************************************************************)
EXTENDS Integers, Sequences, FiniteSets, TLC

\* ------------------------------------------------------------------ bounds
\* inbound hub payloads buffered by the connection and not yet read
MaxHubQueue == 1
\* get_list requests sent and not yet answered by the hub
MaxPending == 1
\* messages the room server delivers on one room connection
MaxRoomMsgs == 2
\* payloads sent on one room connection (the name, then chat lines)
MaxRoomOut == 2

\* -------------------------------------------------------------------- text
Whitespace == {" ", "\t"}

RECURSIVE LStrip(_)
LStrip(s) ==
    IF s # <<>> /\ Head(s) \in Whitespace THEN LStrip(Tail(s)) ELSE s

RECURSIVE RStrip(_)
RStrip(s) ==
    IF s # <<>> /\ s[Len(s)] \in Whitespace
    THEN RStrip(SubSeq(s, 1, Len(s) - 1))
    ELSE s

\* str.strip()
Strip(s) == RStrip(LStrip(s))

\* str.startswith(p)
StartsWith(s, p) == Len(s) >= Len(p) /\ SubSeq(s, 1, Len(p)) = p

\* s[n:]
From(s, n) == SubSeq(s, n + 1, Len(s))

sHelp == <<"/", "h", "e", "l", "p">>
sList == <<"/", "l", "i", "s", "t">>
sRefresh == <<"/", "r", "e", "f", "r", "e", "s", "h">>
sPing == <<"/", "p", "i", "n", "g">>
sQuit == <<"/", "q", "u", "i", "t">>
sInfo == <<"/", "i", "n", "f", "o">>
sJoin == <<"/", "j", "o", "i", "n">>
sLeave == <<"/", "l", "e", "a", "v", "e">>
sInfoSp == sInfo \o <<" ">>
sJoinSp == sJoin \o <<" ">>
sWss == <<"w", "s", "s">>
sDashes == <<"-", "-", "-">>
sBracket == <<"[">>

\* the slice cmd[6:] of lines 83 and 95
ArgOffset == 6

\* ------------------------------------------------------------ input domains
\* room names the hub hands out, and one it never does
Names == {<<"a">>, <<"b">>}
Ghost == <<"c">>

\* addresses the hub may store for a name: empty, insecure, secure
AddrEmpty == <<>>
AddrWs == <<"w", "s", ":", "a">>
AddrWss == <<"w", "s", "s", ":", "b">>
Addrs == {AddrEmpty, AddrWs, AddrWss}

EmptyDir == [n \in {} |-> AddrEmpty]
DirA == [n \in {<<"a">>} |-> AddrWs]
DirAB == [n \in Names |-> IF n = <<"a">> THEN AddrEmpty ELSE AddrWss]
Directories == {EmptyDir, DirA, DirAB}

\* what the user may type at the hub prompt
CmdArgs == {<<"a">>, <<" ", "b", "\t">>, Ghost}
HubLines ==
    {<<>>, <<" ">>, sHelp, <<" ">> \o sHelp, sList, sRefresh, sPing, sQuit,
     sInfo, sJoin, <<"x">>}
    \cup {sInfoSp \o a : a \in CmdArgs}
    \cup {sJoinSp \o a : a \in CmdArgs}

\* what the user may type at the name prompt of a room
NameLines == {<<"a", "l">>, sLeave}

\* what the user may type at the chat prompt of a room: /leave bare and
\* padded, an empty line, /Leave, and /leave followed by a word
RoomLines ==
    {sLeave, <<" ">> \o sLeave \o <<" ">>, <<>>,
     <<"/", "L", "e", "a", "v", "e">>, sLeave \o <<" ", "n">>}

\* what the room server may deliver
RoomMsgs == {sDashes \o <<"x">>, <<"[", "a", "]">>, <<"-", "-">>}

\* raw payloads the hub may deliver (line 36: raw)
RoomListMsg(d) == [json |-> "object", type |-> "room_list", rooms |-> d]
AdminMsg == [json |-> "object", type |-> "admin_broadcast", rooms |-> EmptyDir]
OtherMsg == [json |-> "object", type |-> "other", rooms |-> EmptyDir]
NotJsonMsg == [json |-> "invalid", type |-> "", rooms |-> EmptyDir]
NonObjectMsg == [json |-> "array", type |-> "", rooms |-> EmptyDir]
HubPayloads ==
    {RoomListMsg(d) : d \in Directories}
    \cup {AdminMsg, OtherMsg, NotJsonMsg, NonObjectMsg}

\* ------------------------------------------------------------------- state
VARIABLES
    pc,         \* where the main task (hub_client / room_chat) is suspended
    rooms,      \* hub_client's cached directory (line 32, 43)
    hubState,   \* the hub connection
    hubIn,      \* hub payloads received by the connection, not yet read
    hubOut,     \* get_list requests sent, not yet answered
    roomState,  \* the room connection of the current / last room_chat
    roomIn,     \* room messages received by that connection, not yet read
    roomOut,    \* payloads sent on that connection
    recv_task,  \* the receiver task of room_chat
    rendered,   \* inbound room messages printed for that connection
    address,    \* room_chat's parameter (line 117), <<>> outside room_chat
    lastOut,    \* the last thing printed on the terminal
    retPhase,   \* history: progress since room_chat last returned
    retSends    \* history: get_list requests sent since room_chat last returned

vars ==
    <<pc, rooms, hubState, hubIn, hubOut, roomState, roomIn, roomOut,
      recv_task, rendered, address, lastOut, retPhase, retSends>>

hubVars == <<hubState, hubIn, hubOut>>
connVars == <<roomState, roomIn, roomOut, rendered>>
roomVars == <<roomState, roomIn, roomOut, rendered, recv_task, address>>
retVars == <<retPhase, retSends>>

HubPcs == {"hub_wait", "hub_prompt", "hub_returned"}
RoomPcs ==
    {"room_connect", "room_welcome", "room_name", "room_prompt",
     "room_closing", "room_aexit"}
EndPcs == {"done", "crashed"}

\* a printed line: what it is, and the name and the text it carries
Out(kind, name, text) == [kind |-> kind, name |-> name, text |-> text]
Say(kind) == Out(kind, <<>>, <<>>)

RoomClosed == {"peer_ok", "peer_err", "local_ok", "local_err"}
HubClosedByPeer == {"peer_ok", "peer_err"}

\* lines 29-34: connected, the first get_list sent, the banner printed
Init ==
    /\ pc = "hub_wait"
    /\ rooms = EmptyDir
    /\ hubState = "open"
    /\ hubIn = <<>>
    /\ hubOut = 1
    /\ roomState = "none"
    /\ roomIn = <<>>
    /\ roomOut = <<>>
    /\ recv_task = "none"
    /\ rendered = <<>>
    /\ address = <<>>
    /\ lastOut = Say("banner")
    /\ retPhase = "idle"
    /\ retSends = 0

\* --------------------------------------------------------------- the hub
\* the hub answers one outstanding get_list with a room_list
HubRespond(d) ==
    /\ hubState = "open"
    /\ hubOut > 0
    /\ Len(hubIn) < MaxHubQueue
    /\ hubIn' = Append(hubIn, RoomListMsg(d))
    /\ hubOut' = hubOut - 1
    /\ UNCHANGED <<pc, rooms, hubState, roomVars, lastOut, retVars>>

\* the hub sends a payload nobody asked for
HubPush(m) ==
    /\ hubState = "open"
    /\ Len(hubIn) < MaxHubQueue
    /\ hubIn' = Append(hubIn, m)
    /\ UNCHANGED <<pc, rooms, hubState, hubOut, roomVars, lastOut, retVars>>

\* the hub closes the connection, cleanly or not
HubDrop(how) ==
    /\ hubState = "open"
    /\ pc \notin EndPcs
    /\ hubState' = how
    /\ UNCHANGED <<pc, rooms, hubIn, hubOut, roomVars, lastOut, retVars>>

\* a connection object nothing refers to any more is gone with its buffers
NoConn ==
    /\ roomState' = "none"
    /\ roomIn' = <<>>
    /\ roomOut' = <<>>
    /\ rendered' = <<>>

\* ------------------------------------------------- leaving hub_client
\* hub_client returns or raises: `async with` closes the hub connection and
\* asyncio.run cancels whatever task is still pending
Finish(how, out) ==
    /\ pc' = how
    /\ lastOut' = out
    /\ hubState' = IF hubState = "open" THEN "local" ELSE hubState
    /\ recv_task' = "none"
    /\ NoConn
    /\ UNCHANGED <<rooms, hubOut, address, retVars>>

\* an exception nobody catches leaves main with a traceback (lines 164-168)
Crash == Finish("crashed", Say("traceback")) /\ UNCHANGED hubIn


\* --------------------------------------------------------- hub_client
\* `await ws.send(json.dumps({"type": "get_list"}))` on an open connection
\* (lines 71, 77, 103); phase is the history phase the send happens in
SendGetList(phase) ==
    /\ hubState = "open"
    /\ hubOut < MaxPending
    /\ hubOut' = hubOut + 1
    /\ retSends' = IF phase = "idle" THEN 0 ELSE retSends + 1
    /\ UNCHANGED <<hubState, hubIn>>

\* reading a command ends the history of the last room_chat return
ReadsCommand == retPhase' = "idle" /\ retSends' = 0

\* dict.get(key): <<>> for None, <<value>> otherwise
Get(d, key) == IF key \in DOMAIN d THEN <<d[key]>> ELSE <<>>

\* Python truthiness of the result of rooms.get: None and "" are falsy
Truthy(opt) == opt # <<>> /\ opt[1] # <<>>

\* lines 36-43 and 113-114, one iteration of `async for raw in ws`
HubRecv ==
    /\ pc = "hub_wait"
    /\ hubIn # <<>>
    /\ LET raw == Head(hubIn) IN
        CASE raw.json = "invalid" ->
                \* json.loads raises: continue
                /\ hubIn' = Tail(hubIn)
                /\ UNCHANGED <<pc, rooms, hubState, hubOut, roomVars,
                               lastOut, retVars>>
          [] raw.json = "array" ->
                \* data.get raises AttributeError on a list
                /\ hubIn' = Tail(hubIn)
                /\ Finish("crashed", Say("traceback"))
          [] raw.json = "object" /\ raw.type = "room_list" ->
                /\ hubIn' = Tail(hubIn)
                /\ rooms' = raw.rooms
                /\ lastOut' = Say("room_list")
                /\ pc' = "hub_prompt"
                /\ retPhase' = IF retPhase = "returned" THEN "listed" ELSE retPhase
                /\ UNCHANGED <<hubState, hubOut, roomVars, retSends>>
          [] raw.json = "object" /\ raw.type = "admin_broadcast" ->
                /\ hubIn' = Tail(hubIn)
                /\ lastOut' = Say("admin")
                /\ UNCHANGED <<pc, rooms, hubState, hubOut, roomVars, retVars>>
          [] OTHER ->
                /\ hubIn' = Tail(hubIn)
                /\ UNCHANGED <<pc, rooms, hubState, hubOut, roomVars,
                               lastOut, retVars>>

\* line 36: the iteration ends when the connection closed normally ...
HubStreamEndOk ==
    /\ pc = "hub_wait"
    /\ hubIn = <<>>
    /\ hubState = "peer_ok"
    /\ Finish("done", lastOut)
    /\ UNCHANGED hubIn

\* ... and raises ConnectionClosedError when it closed with an error
HubStreamEndErr ==
    /\ pc = "hub_wait"
    /\ hubIn = <<>>
    /\ hubState = "peer_err"
    /\ Crash

\* lines 54-56: an empty line re-prompts
HubEmpty(line) ==
    /\ pc = "hub_prompt"
    /\ line = <<>>
    /\ ReadsCommand
    /\ UNCHANGED <<pc, rooms, hubVars, roomVars, lastOut>>

\* lines 60-68
HubHelp(line) ==
    /\ pc = "hub_prompt"
    /\ line # <<>>
    /\ Strip(line) = sHelp
    /\ ReadsCommand
    /\ lastOut' = Say("help")
    /\ UNCHANGED <<pc, rooms, hubVars, roomVars>>

\* lines 70-72
HubList(line) ==
    /\ pc = "hub_prompt"
    /\ line # <<>>
    /\ Strip(line) \in {sList, sRefresh}
    /\ \/ /\ SendGetList("idle")
          /\ retPhase' = "idle"
          /\ pc' = "hub_wait"
          /\ UNCHANGED <<rooms, roomVars, lastOut>>
       \/ /\ hubState # "open"
          /\ Crash

\* lines 74-80
HubPing(line) ==
    /\ pc = "hub_prompt"
    /\ line # <<>>
    /\ Strip(line) = sPing
    /\ \/ /\ SendGetList("idle")
          /\ retPhase' = "idle"
          /\ lastOut' = Say("pong")
          /\ UNCHANGED <<pc, rooms, roomVars>>
       \/ /\ hubState # "open"
          /\ Crash

InfoName_Unstripped(line) == From(Strip(line), ArgOffset)

\* line 83: room_name = cmd[6:].strip(), cmd being the stripped line
InfoName(line) == Strip(From(Strip(line), ArgOffset))

\* lines 82-92
HubInfo(line) ==
    /\ pc = "hub_prompt"
    /\ line # <<>>
    /\ StartsWith(Strip(line), sInfoSp)
    /\ LET room_name == InfoName(line) IN
        /\ lastOut' =
              IF room_name \in DOMAIN rooms
              THEN Out(IF StartsWith(rooms[room_name], sWss)
                       THEN "info_wss" ELSE "info_ws",
                       room_name, rooms[room_name])
              ELSE Out("info_notfound", room_name, <<>>)
        /\ ReadsCommand
        /\ UNCHANGED <<pc, rooms, hubVars, roomVars>>

\* line 95: room_name = cmd[6:].strip(), cmd being the stripped line
JoinName(line) == Strip(From(Strip(line), ArgOffset))

JoinLookup_Default(line) ==
    IF JoinName(line) \in DOMAIN rooms THEN <<rooms[JoinName(line)]>>
    ELSE <<AddrWs>>

\* line 96: addr = rooms.get(room_name)
JoinLookup(line) == Get(rooms, JoinName(line))

\* lines 94-101, up to the call of room_chat
HubJoin(line) ==
    /\ pc = "hub_prompt"
    /\ line # <<>>
    /\ ~StartsWith(Strip(line), sInfoSp)
    /\ StartsWith(Strip(line), sJoinSp)
    /\ LET room_name == JoinName(line)
           addr == JoinLookup(line)
       IN  IF ~Truthy(addr)
           THEN /\ lastOut' = Out("join_notfound", room_name, <<>>)
                /\ ReadsCommand
                /\ UNCHANGED <<pc, rooms, hubVars, roomVars>>
           ELSE /\ lastOut' = Out("connecting", room_name, <<>>)
                /\ address' = addr[1]
                /\ pc' = "room_connect"
                /\ ReadsCommand
                /\ UNCHANGED <<rooms, hubVars, connVars, recv_task>>

\* lines 106-108
HubQuit(line) ==
    /\ pc = "hub_prompt"
    /\ line # <<>>
    /\ Strip(line) = sQuit
    /\ Finish("done", Say("goodbye"))
    /\ UNCHANGED hubIn

\* lines 110-111
HubUnknown(line) ==
    /\ pc = "hub_prompt"
    /\ line # <<>>
    /\ Strip(line) \notin {sHelp, sList, sRefresh, sPing, sQuit}
    /\ ~StartsWith(Strip(line), sInfoSp)
    /\ ~StartsWith(Strip(line), sJoinSp)
    /\ lastOut' = Out("unknown", <<>>, Strip(line))
    /\ ReadsCommand
    /\ UNCHANGED <<pc, rooms, hubVars, roomVars>>

\* line 54: input() raises EOFError when standard input ends
HubEOF ==
    /\ pc = "hub_prompt"
    /\ Crash

HubAfterRoom_NoRefresh ==
    /\ pc = "hub_returned"
    /\ lastOut' = Say("returned")
    /\ pc' = "hub_wait"
    /\ UNCHANGED <<rooms, hubVars, roomVars, retVars>>

\* lines 102-104, after room_chat returned
HubAfterRoom ==
    /\ pc = "hub_returned"
    /\ \/ /\ SendGetList(retPhase)
          /\ lastOut' = Say("returned")
          /\ pc' = "hub_wait"
          /\ UNCHANGED <<rooms, roomVars, retPhase>>
       \/ /\ hubState # "open"
          /\ Crash

\* ----------------------------------------------------------- room_chat
\* Task.cancel(): a pending task never runs its body again
Cancel(task) == IF task = "running" THEN "cancelled" ELSE task

\* room_chat returns to line 102, through `return` or through the handler of
\* line 160, in both cases after `async with` has closed the connection.
\* task is the receiver task as the exit path leaves it: a task still running
\* keeps the connection it reads from, and what that connection has buffered;
\* from here on rendered holds what is printed after the return.
ReturnToHub(task) ==
    /\ pc' = "hub_returned"
    /\ address' = <<>>
    /\ retPhase' = "returned"
    /\ retSends' = 0
    /\ IF task = "running"
       THEN /\ recv_task' = "running"
            /\ roomOut' = <<>>
            /\ rendered' = <<>>
            /\ UNCHANGED <<roomState, roomIn>>
       ELSE recv_task' = "none" /\ NoConn

\* `async with` leaves by closing the connection (line 119): close() starts
\* the closing handshake of an open connection and waits for its end
StartClose(state) == IF state = "open" THEN "closing" ELSE state

\* what room_chat and receiver print about inbound traffic (lines 122,
\* 138-144): how the line is rendered, and the message it shows
Shown(class, msg) == [class |-> class, text |-> msg]

\* line 119: connect(address) succeeds.  A receiver left over from the last
\* room_chat holds a closed connection, so it is ready to run, and the event
\* loop runs every ready task before it completes any network operation.
RoomConnectOk ==
    /\ pc = "room_connect"
    /\ recv_task # "running"
    /\ roomState' = "open"
    /\ roomIn' = <<>>
    /\ roomOut' = <<>>
    /\ rendered' = <<>>
    /\ recv_task' = "none"
    /\ pc' = "room_welcome"
    /\ UNCHANGED <<rooms, hubVars, address, lastOut, retVars>>

\* line 119: connect(address) raises; lines 160-161
RoomConnectFail ==
    /\ pc = "room_connect"
    /\ recv_task # "running"
    /\ lastOut' = Say("join_failed")
    /\ ReturnToHub(recv_task)
    /\ UNCHANGED <<rooms, hubVars>>

RoomWelcome_ReceiverFirst ==
    /\ pc = "room_welcome"
    /\ roomIn # <<>>
    /\ rendered' = <<Shown("welcome", Head(roomIn))>>
    /\ roomIn' = Tail(roomIn)
    /\ recv_task' = "running"
    /\ pc' = "room_name"
    /\ UNCHANGED <<rooms, hubVars, roomState, roomOut, address, lastOut,
                   retVars>>

\* lines 121-122: the welcome is read and printed
RoomWelcome ==
    /\ pc = "room_welcome"
    /\ roomIn # <<>>
    /\ rendered' = <<Shown("welcome", Head(roomIn))>>
    /\ roomIn' = Tail(roomIn)
    /\ pc' = "room_name"
    /\ UNCHANGED <<rooms, hubVars, roomState, roomOut, recv_task, address,
                   lastOut, retVars>>

RoomWelcomeFail_Uncaught ==
    /\ pc = "room_welcome"
    /\ roomIn = <<>>
    /\ roomState \in RoomClosed
    /\ Crash

\* line 121: recv() raises ConnectionClosed; lines 160-161
RoomWelcomeFail ==
    /\ pc = "room_welcome"
    /\ roomIn = <<>>
    /\ roomState \in RoomClosed
    /\ lastOut' = Say("join_failed")
    /\ ReturnToHub(recv_task)
    /\ UNCHANGED <<rooms, hubVars>>

\* lines 123-148: the name is sent, the receiver task is created
RoomName(name) ==
    /\ pc = "room_name"
    /\ \/ /\ roomState = "open"
          /\ Len(roomOut) < MaxRoomOut
          /\ roomOut' = Append(roomOut, name)
          /\ lastOut' = Out("joined", name, <<>>)
          /\ recv_task' = "running"
          /\ pc' = "room_prompt"
          /\ UNCHANGED <<rooms, hubVars, roomState, roomIn, rendered,
                         address, retVars>>
       \/ /\ roomState \in RoomClosed
          \* line 124 raises; lines 160-161
          /\ lastOut' = Say("join_failed")
          /\ ReturnToHub(recv_task)
          /\ UNCHANGED <<rooms, hubVars>>

RoomEOF_NoClose ==
    /\ pc \in {"room_name", "room_prompt"}
    /\ lastOut' = Say("join_failed")
    /\ ReturnToHub(recv_task)
    /\ UNCHANGED <<rooms, hubVars>>

\* lines 123 and 148: input() raises EOFError; the exception leaves
\* `async with`, which closes the connection before line 160 handles it
RoomEOF ==
    /\ pc \in {"room_name", "room_prompt"}
    /\ roomState' = StartClose(roomState)
    /\ pc' = "room_aexit"
    /\ UNCHANGED <<rooms, hubVars, roomIn, roomOut, rendered, recv_task,
                   address, lastOut, retVars>>

\* lines 160-161 after that close: recv_task is not cancelled on this path
RoomAexitDone ==
    /\ pc = "room_aexit"
    /\ roomState \in RoomClosed
    /\ lastOut' = Say("join_failed")
    /\ ReturnToHub(recv_task)
    /\ UNCHANGED <<rooms, hubVars>>

\* lines 148-151: /leave starts ws.close()
RoomLeave(line) ==
    /\ pc = "room_prompt"
    /\ Strip(line) = sLeave
    /\ lastOut' = Say("leaving")
    /\ roomState' = StartClose(roomState)
    /\ pc' = "room_closing"
    /\ UNCHANGED <<rooms, hubVars, roomIn, roomOut, rendered, recv_task,
                   address, retVars>>

\* lines 152-153, once ws.close() has returned
RoomLeaveDone ==
    /\ pc = "room_closing"
    /\ roomState \in RoomClosed
    /\ ReturnToHub(Cancel(recv_task))
    /\ UNCHANGED <<rooms, hubVars, lastOut>>

\* lines 154-155: any other line is sent
RoomSend(line) ==
    /\ pc = "room_prompt"
    /\ Strip(line) # sLeave
    /\ roomState = "open"
    /\ Len(roomOut) < MaxRoomOut
    /\ roomOut' = Append(roomOut, line)
    /\ UNCHANGED <<pc, rooms, hubVars, roomState, roomIn, rendered,
                   recv_task, address, lastOut, retVars>>

\* lines 154-159: the send raises on a closed connection
RoomSendFail(line) ==
    /\ pc = "room_prompt"
    /\ Strip(line) # sLeave
    /\ roomState \in RoomClosed
    /\ lastOut' = Say("connection_lost")
    /\ ReturnToHub(Cancel(recv_task))
    /\ UNCHANGED <<rooms, hubVars>>

\* ------------------------------------------------------------ receiver
Classify_TwoDashes(msg) ==
    IF StartsWith(msg, <<"-", "-">>) THEN "system_notice"
    ELSE IF StartsWith(msg, sBracket) THEN "tagged_chat"
    ELSE "generic_info"

\* lines 137-142
Classify(msg) ==
    IF StartsWith(msg, sDashes) THEN "system_notice"
    ELSE IF StartsWith(msg, sBracket) THEN "tagged_chat"
    ELSE "generic_info"

ReceiverRender_Skips ==
    /\ recv_task = "running"
    /\ roomIn # <<>>
    /\ roomIn' = Tail(roomIn)
    /\ UNCHANGED <<pc, rooms, hubVars, roomState, roomOut, rendered,
                   recv_task, address, lastOut, retVars>>

ReceiverRender_InputBlocksLoop ==
    /\ recv_task = "running"
    /\ roomIn # <<>>
    /\ pc \notin {"room_prompt", "hub_prompt"}
    /\ rendered' = Append(rendered, Shown(Classify(Head(roomIn)), Head(roomIn)))
    /\ roomIn' = Tail(roomIn)
    /\ UNCHANGED <<pc, rooms, hubVars, roomState, roomOut, recv_task,
                   address, lastOut, retVars>>

\* lines 132-142, one iteration of `async for msg in ws`
ReceiverRender ==
    /\ recv_task = "running"
    /\ roomIn # <<>>
    /\ rendered' = Append(rendered, Shown(Classify(Head(roomIn)), Head(roomIn)))
    /\ roomIn' = Tail(roomIn)
    /\ UNCHANGED <<pc, rooms, hubVars, roomState, roomOut, recv_task,
                   address, lastOut, retVars>>

\* the receiver coroutine ends: inside room_chat the task object stays in
\* recv_task; after room_chat returned nothing refers to it or its connection
ReceiverEnds(notice) ==
    IF pc \in RoomPcs
    THEN /\ recv_task' = "done"
         /\ rendered' = rendered \o notice
         /\ UNCHANGED <<roomState, roomIn, roomOut>>
    ELSE /\ recv_task' = "none"
         /\ NoConn

\* line 132: the iteration ends silently when the connection closed normally
ReceiverEndOk ==
    /\ recv_task = "running"
    /\ roomIn = <<>>
    /\ roomState \in {"peer_ok", "local_ok"}
    /\ ReceiverEnds(<<>>)
    /\ UNCHANGED <<pc, rooms, hubVars, address, lastOut, retVars>>

\* lines 143-144: it raises ConnectionClosedError when it closed with an error
ReceiverEndErr ==
    /\ recv_task = "running"
    /\ roomIn = <<>>
    /\ roomState \in {"peer_err", "local_err"}
    /\ ReceiverEnds(<<Shown("room_disconnected", <<>>)>>)
    /\ UNCHANGED <<pc, rooms, hubVars, address, lastOut, retVars>>

\* ------------------------------------------------------ the room server
\* a message arrives; the peer may still send until the handshake is over
RoomDeliver(msg) ==
    /\ roomState \in {"open", "closing"}
    /\ Len(roomIn) + Len(rendered) < MaxRoomMsgs
    /\ pc \in RoomPcs
    /\ roomIn' = Append(roomIn, msg)
    /\ UNCHANGED <<pc, rooms, hubVars, roomState, roomOut, rendered,
                   recv_task, address, lastOut, retVars>>

\* the peer closes the room connection, or the connection is lost
RoomPeerClose(how) ==
    /\ roomState = "open"
    /\ roomState' = how
    /\ UNCHANGED <<pc, rooms, hubVars, roomIn, roomOut, rendered, recv_task,
                   address, lastOut, retVars>>

\* the closing handshake started by ws.close() ends, or times out
RoomCloseDone(how) ==
    /\ roomState = "closing"
    /\ roomState' = how
    /\ UNCHANGED <<pc, rooms, hubVars, roomIn, roomOut, rendered, recv_task,
                   address, lastOut, retVars>>

\* ------------------------------------------------------- specification
Next ==
    \/ \E d \in Directories : HubRespond(d)
    \/ \E m \in HubPayloads : HubPush(m)
    \/ \E how \in HubClosedByPeer : HubDrop(how)
    \/ HubRecv
    \/ HubStreamEndOk
    \/ HubStreamEndErr
    \/ \E line \in HubLines : HubEmpty(line)
    \/ \E line \in HubLines : HubHelp(line)
    \/ \E line \in HubLines : HubList(line)
    \/ \E line \in HubLines : HubPing(line)
    \/ \E line \in HubLines : HubInfo(line)
    \/ \E line \in HubLines : HubJoin(line)
    \/ \E line \in HubLines : HubQuit(line)
    \/ \E line \in HubLines : HubUnknown(line)
    \/ HubEOF
    \/ HubAfterRoom
    \/ RoomConnectOk
    \/ RoomConnectFail
    \/ RoomWelcome
    \/ RoomWelcomeFail
    \/ \E name \in NameLines : RoomName(name)
    \/ RoomEOF
    \/ RoomAexitDone
    \/ \E line \in RoomLines : RoomLeave(line)
    \/ RoomLeaveDone
    \/ \E line \in RoomLines : RoomSend(line)
    \/ \E line \in RoomLines : RoomSendFail(line)
    \/ ReceiverRender
    \/ ReceiverEndOk
    \/ ReceiverEndErr
    \/ \E msg \in RoomMsgs : RoomDeliver(msg)
    \/ \E how \in {"peer_ok", "peer_err"} : RoomPeerClose(how)
    \/ \E how \in {"local_ok", "local_err"} : RoomCloseDone(how)

Spec == Init /\ [][Next]_vars

\* The event loop runs every task that is ready: a step of hub_client,
\* room_chat or receiver that needs no further input happens eventually.
\* Nothing is assumed of the user (read_input may never return) or of the
\* peers, except that an attempt to connect and a closing handshake end
\* (both have timeouts in the websockets library).
Fairness ==
    /\ WF_vars(HubRecv)
    /\ WF_vars(HubStreamEndOk)
    /\ WF_vars(HubStreamEndErr)
    /\ WF_vars(HubAfterRoom)
    /\ WF_vars(RoomConnectOk \/ RoomConnectFail)
    /\ WF_vars(RoomWelcome)
    /\ WF_vars(RoomWelcomeFail)
    /\ WF_vars(RoomAexitDone)
    /\ WF_vars(RoomLeaveDone)
    /\ WF_vars(ReceiverRender)
    /\ WF_vars(ReceiverEndOk)
    /\ WF_vars(ReceiverEndErr)
    /\ WF_vars(\E how \in {"local_ok", "local_err"} : RoomCloseDone(how))

FairSpec == Spec /\ Fairness

\* ---------------------------------------------------------------- claims
\* the receiver has printed the disconnect notice of line 144
NoticeShown ==
    rendered # <<>> /\ rendered[Len(rendered)].class = "room_disconnected"

\* the main task is in the steady-state loop of room_chat or leaving it
ConnLive == {"open", "closing"}

\* C1: once a line that trims to /leave has been entered, the receiver
\* renders no further inbound message, and when room_chat returns the room
\* connection is closed.
C1_LeaveStopsRendering ==
    [][pc = "room_closing" =>
        (/\ ~ReceiverRender
         /\ (pc' = "hub_returned" => roomState \notin ConnLive))]_vars

\* C2: after room_chat returned, hub_client has sent exactly one get_list
\* when it waits for the hub and when it next prompts, and it prompts only
\* after it has processed a room_list.
C2_OneRefreshAfterRoom ==
    /\ ((retPhase # "idle" /\ pc \in {"hub_wait", "hub_prompt"})
          => retSends = 1)
    /\ ((retPhase # "idle" /\ pc = "hub_prompt") => retPhase = "listed")
    /\ (retPhase = "returned"
          => pc \in {"hub_returned", "hub_wait"} \cup EndPcs)

C2_Witness ==
    /\ pc = "hub_prompt"
    /\ retPhase = "listed"
    /\ retSends = 1
    /\ lastOut = Say("room_list")

\* C3: when control is back in hub_client the receiver of the room session
\* renders nothing any more, neither an inbound message nor the disconnect
\* notice.
C3_NoReceiverAfterReturn ==
    [][(pc \in HubPcs => ~(ReceiverRender \/ ReceiverEndErr))]_vars

\* C4: when the receiver finds the inbound stream ended by the peer, the
\* disconnect notice is rendered and room_chat does not go on waiting for a
\* line of user input.
C4_StreamEndEndsSession ==
    [][(recv_task = "running" /\ recv_task' = "done"
            /\ roomState \in {"peer_ok", "peer_err"})
        => (NoticeShown' /\ pc' # "room_prompt")]_vars

\* C5: after the receiver has terminated no send is attempted on the room
\* connection, after the outbound loop has decided to exit the receiver
\* renders nothing, and room_chat returns with the connection closed.
C5_FirstExitDecides ==
    [][(/\ (recv_task = "done" =>
             ~(\E line \in RoomLines : RoomSend(line) \/ RoomSendFail(line)))
        /\ (pc = "room_closing" => ~ReceiverRender)
        /\ ((pc \in RoomPcs /\ pc' = "hub_returned")
             => roomState \notin ConnLive)
       )]_vars

\* C6: a /join whose name is not a key of the cached directory reports
\* not-found, stays at the prompt, sends nothing to the hub, leaves the cache
\* alone and opens no room connection; room_chat is only ever invoked for a
\* name the cache holds.
C6_JoinAbsentNoConnect ==
    [][(/\ \A line \in HubLines :
            (/\ StartsWith(Strip(line), sJoinSp)
             /\ Strip(From(Strip(line), ArgOffset)) \notin DOMAIN rooms
             /\ HubJoin(line))
            => (/\ pc' = "hub_prompt"
                /\ lastOut' = Out("join_notfound",
                                  Strip(From(Strip(line), ArgOffset)), <<>>)
                /\ UNCHANGED <<rooms, hubVars, roomVars>>)
       /\ ((pc = "hub_prompt" /\ pc' = "room_connect")
            => lastOut'.name \in DOMAIN rooms)
       )]_vars

C6_Witness ==
    /\ pc = "hub_prompt"
    /\ lastOut.kind = "join_notfound"
    /\ lastOut.name \notin DOMAIN rooms
    /\ rooms # EmptyDir

\* C7: a /join whose name is a key of the cached directory invokes room_chat
\* with the address stored for it, whatever that address is; not-found is
\* reported only for a name the cache does not hold.
C7_JoinPresentConnects ==
    /\ (lastOut.kind = "join_notfound" => lastOut.name \notin DOMAIN rooms)
    /\ (pc = "room_connect" =>
          (lastOut.name \in DOMAIN rooms /\ address = rooms[lastOut.name]))

\* C8: /info renders the address the cached directory stores for the name,
\* and not-found for a name it does not hold; it leaves the cache alone,
\* sends nothing to the hub and opens no room connection.
C8_InfoRendersCache ==
    [][(/\ \A line \in HubLines :
            (StartsWith(Strip(line), sInfoSp) /\ HubInfo(line))
            => (LET name == Strip(From(Strip(line), ArgOffset)) IN
                /\ (name \in DOMAIN rooms =>
                     (/\ lastOut'.kind \in {"info_ws", "info_wss"}
                      /\ lastOut'.name = name
                      /\ lastOut'.text = rooms[name]))
                /\ (name \notin DOMAIN rooms =>
                     lastOut' = Out("info_notfound", name, <<>>))
                /\ pc' = "hub_prompt"
                /\ UNCHANGED <<rooms, hubVars, roomVars>>)
       /\ (lastOut'.kind \in {"info_ws", "info_wss"} =>
            (/\ lastOut'.name \in DOMAIN rooms'
             /\ lastOut'.text = rooms'[lastOut'.name]))
       /\ (lastOut'.kind = "info_notfound" =>
            lastOut'.name \notin DOMAIN rooms')
       )]_vars

C8_Witness ==
    /\ pc = "hub_prompt"
    /\ lastOut = Out("info_wss", <<"b">>, AddrWss)
    /\ rooms = DirAB

\* C9: when the peer has closed the hub connection and hub_client ends,
\* it ends with a report on the terminal.
C9_HubLossReported ==
    [][(hubState \in HubClosedByPeer /\ pc \notin EndPcs /\ pc' \in EndPcs)
        => (lastOut' # lastOut /\ lastOut'.kind # "goodbye")]_vars

\* C10: once the peer has closed the hub connection no command entered at
\* the hub prompt is carried out.
C10_NoDispatchAfterDrop ==
    [][(hubState \in HubClosedByPeer =>
        ~(\E line \in HubLines :
            (HubHelp(line) \/ HubInfo(line) \/ HubJoin(line))))]_vars

\* what line 42 and line 113 accept: a JSON object of one of the two types
HandledPayload(raw) ==
    raw.json = "object" /\ raw.type \in {"room_list", "admin_broadcast"}

\* C11: a hub payload that is neither a room_list nor an admin_broadcast
\* object is dropped: hub_client goes on waiting, nothing is printed or sent,
\* the cached directory and the connection stay as they are.
C11_MalformedDiscarded ==
    [][((HubRecv /\ ~HandledPayload(Head(hubIn)))
        => (/\ pc' = "hub_wait"
            /\ hubIn' = Tail(hubIn)
            /\ UNCHANGED <<rooms, lastOut, hubOut, hubState, roomVars>>))]_vars

\* an admin_broadcast has arrived and hub_client has not read it yet
AdminPending == hubIn # <<>> /\ Head(hubIn) = AdminMsg

\* C12: an admin_broadcast that arrives while hub_client is in its command
\* loop, waiting for the user, is rendered (and the user need not enter a
\* command for that).
C12_AdminRenderedInLoop ==
    (AdminPending /\ pc = "hub_prompt")
        ~> (lastOut = Say("admin") /\ ~AdminPending)

\* room_chat holds a connection of its own (line 119 has succeeded)
InSession == RoomPcs \ {"room_connect"}

\* C13: on a room connection exactly one inbound message is consumed as the
\* welcome, before anything else; the name is asked for once and is the
\* first payload sent; until the name has been sent there is no receiver
\* task, nothing further is rendered and no chat line is sent.
C13_WelcomeThenName ==
    [][(/\ ((pc' = "room_name" /\ pc # "room_name")
              => (/\ pc = "room_welcome"
                  /\ roomIn # <<>>
                  /\ roomIn' = Tail(roomIn)
                  /\ rendered' = <<Shown("welcome", Head(roomIn))>>))
        /\ ((pc = "room_name" /\ pc' = "room_name")
              => UNCHANGED <<rendered, roomOut, recv_task>>)
        /\ ((pc = "room_name" /\ pc' # "room_name")
              => pc' \in {"room_prompt", "room_aexit", "hub_returned"})
        /\ ((pc' = "room_prompt" /\ pc # "room_prompt")
              => (/\ pc = "room_name"
                  /\ recv_task = "none"
                  /\ recv_task' = "running"
                  /\ \E name \in NameLines : roomOut' = <<name>>))
        /\ (pc' \in {"room_welcome", "room_name"}
              => (recv_task' = "none" /\ roomOut' = <<>>))
        /\ (pc' = "room_welcome" => rendered' = <<>>)
        /\ (pc' \in InSession
              => (/\ (recv_task' # "none" => roomOut' # <<>>)
                  /\ (roomOut' # <<>> =>
                        (roomOut'[1] \in NameLines /\ rendered' # <<>>))
                  /\ (rendered' # <<>> =>
                        (/\ rendered'[1].class = "welcome"
                         /\ \A i \in 2..Len(rendered') :
                               rendered'[i].class # "welcome"))))
       )]_vars

C13_Witness ==
    /\ pc = "room_prompt"
    /\ recv_task = "running"
    /\ Len(roomOut) = 2
    /\ roomOut[1] \in NameLines
    /\ Len(rendered) = 2
    /\ rendered[1].class = "welcome"

\* room_chat is before its steady state: connecting, at the welcome, at the name
Handshake == {"room_connect", "room_welcome", "room_name"}

\* C14: when the connect, the read of the welcome or the send of the name
\* fails, room_chat prints the join failure and returns to hub_client: no
\* receiver task exists, no chat line was sent, the cached directory and the
\* hub connection are as they were.  A welcome that cannot arrive any more
\* and a name that cannot be sent lead nowhere else.
C14_HandshakeFailureReturns ==
    [][(/\ ((pc \in Handshake /\ pc' = "hub_returned")
              => (/\ lastOut' = Say("join_failed")
                  /\ recv_task' = "none"
                  /\ roomOut = <<>>
                  /\ address' = <<>>
                  /\ UNCHANGED <<rooms, hubVars>>))
        /\ ((pc \in Handshake /\ pc' # pc)
              => pc' \in Handshake \cup
                         {"room_prompt", "room_aexit", "hub_returned"})
        /\ ((pc = "room_welcome" /\ roomIn = <<>> /\ roomState \in RoomClosed
               /\ pc' # pc)
              => pc' = "hub_returned")
        /\ ((pc = "room_name" /\ roomState \in RoomClosed /\ pc' # pc)
              => pc' \in {"hub_returned", "room_aexit"})
       )]_vars

C14_Witness ==
    /\ pc = "hub_returned"
    /\ lastOut = Say("join_failed")
    /\ recv_task = "none"
    /\ rooms = DirAB
    /\ retPhase = "returned"

\* C15: no line the user entered that trims to /leave is ever among the
\* payloads sent on the room connection.
C15_LeaveNeverSent ==
    \A i \in DOMAIN roomOut : Strip(roomOut[i]) # sLeave

\* room_chat waits for a chat line while its receiver task is alive
Steady == pc = "room_prompt" /\ recv_task = "running"

\* C16: in the steady state the receiver renders whatever the connection
\* has received, down to the last message, without the user entering
\* anything (the session may instead end because the user entered a line),
\* and a line the user enters while the connection is open can be sent
\* whether or not anything is inbound.  In the steady state only the
\* receiver takes messages out of roomIn.
C16_NeitherBlocksTheOther ==
    /\ (Steady /\ roomIn # <<>>) ~> (roomIn = <<>> \/ pc # "room_prompt")
    /\ [](\A line \in RoomLines :
            (/\ Steady
             /\ roomState = "open"
             /\ Len(roomOut) < MaxRoomOut
             /\ Strip(line) # sLeave)
            => ENABLED RoomSend(line))

C16_Witness ==
    /\ Steady
    /\ roomState = "open"
    /\ roomIn = <<>>
    /\ Len(roomOut) = 1
    /\ Len(rendered) = 2
    /\ rendered[2].class = "tagged_chat"

\* how an inbound room message can be rendered (lines 122, 138, 140, 142)
MessageClasses == {"welcome", "system_notice", "tagged_chat", "generic_info"}

\* C17: within a room session the connection's buffer is a queue: a message
\* is added at its end by the server and taken from its front by rendering
\* exactly that message (the first one as the welcome, every later one by
\* the receiver), so that what is rendered is, in order, a prefix of what
\* was delivered; what is sent grows only at its end, first by the name,
\* then by each line entered that does not trim to /leave.
C17_OrderPreserved ==
    [][((pc \in InSession /\ pc' \in InSession)
        => (/\ (roomIn' # roomIn
                  => (\/ /\ \E msg \in RoomMsgs : roomIn' = Append(roomIn, msg)
                         /\ rendered' = rendered
                      \/ /\ roomIn # <<>>
                         /\ roomIn' = Tail(roomIn)
                         /\ Len(rendered') = Len(rendered) + 1))
            /\ (rendered' # rendered
                  => (\/ /\ roomIn # <<>>
                         /\ roomIn' = Tail(roomIn)
                         /\ \E c \in MessageClasses :
                              /\ rendered' =
                                    Append(rendered, Shown(c, Head(roomIn)))
                              /\ (c = "welcome") = (rendered = <<>>)
                      \/ /\ roomIn' = roomIn
                         /\ rendered' =
                              Append(rendered,
                                     Shown("room_disconnected", <<>>))))
            /\ (roomOut' # roomOut
                  => (\/ /\ pc = "room_name"
                         /\ roomOut = <<>>
                         /\ \E name \in NameLines : roomOut' = <<name>>
                      \/ /\ pc = "room_prompt"
                         /\ \E line \in RoomLines :
                              /\ Strip(line) # sLeave
                              /\ roomOut' = Append(roomOut, line)))))]_vars

C17_Witness ==
    /\ pc = "room_prompt"
    /\ Len(rendered) = 2
    /\ rendered[1] = Shown("welcome", <<"[", "a", "]">>)
    /\ rendered[2] = Shown("system_notice", sDashes \o <<"x">>)
    /\ Len(roomOut) = 2
    /\ roomOut[2] = sLeave \o <<" ", "n">>

\* C18: the one hub connection is open only while hub_client runs; a room
\* connection is open (or closing) only inside room_chat, a new one is opened
\* only when none is open, and room_chat returns only with its connection
\* closed, so none is open when hub_client reads the next command.
C18_OneConnectionEach ==
    [][(/\ (roomState' \in ConnLive => pc' \in InSession)
        /\ (pc' \in HubPcs \cup EndPcs \cup {"room_connect"}
              => roomState' \in RoomClosed \cup {"none"})
        /\ ((pc \in RoomPcs /\ pc' = "hub_returned")
              => roomState \notin ConnLive)
        /\ ((roomState # "open" /\ roomState' = "open")
              => (/\ pc = "room_connect"
                  /\ pc' = "room_welcome"
                  /\ roomState \notin ConnLive
                  /\ recv_task # "running"))
        /\ (hubState' = "open" => (hubState = "open" /\ pc' \notin EndPcs))
       )]_vars

C18_Witness ==
    /\ pc = "hub_prompt"
    /\ retPhase = "listed"
    /\ recv_task = "running"
    /\ roomState \in RoomClosed
    /\ hubState = "open"

\* C19: every message the receiver takes is rendered in the one form its
\* first characters decide: system notice when they are three dashes,
\* otherwise tagged chat when the first is a bracket, otherwise generic
\* info; the receiver is still running afterwards, and it never ends while
\* a message is waiting for it.
C19_ClassificationTotal ==
    [][(/\ (ReceiverRender
              => (LET msg == Head(roomIn)
                      shown == rendered'[Len(rendered')]
                  IN  /\ Len(rendered') = Len(rendered) + 1
                      /\ shown.text = msg
                      /\ shown.class \in
                            {"system_notice", "tagged_chat", "generic_info"}
                      /\ (shown.class = "system_notice")
                            = (/\ Len(msg) >= 3
                               /\ \A i \in 1..3 : msg[i] = "-")
                      /\ (shown.class = "tagged_chat")
                            = (/\ Len(msg) >= 1
                               /\ msg[1] = "["
                               /\ ~(Len(msg) >= 3
                                     /\ \A i \in 1..3 : msg[i] = "-"))
                      /\ recv_task' = "running"))
        /\ ((recv_task = "running" /\ roomIn # <<>> /\ pc' = pc)
              => recv_task' = "running")
       )]_vars

C19_Witness ==
    /\ recv_task = "running"
    /\ pc = "room_prompt"
    /\ Len(rendered) = 2
    /\ rendered[1] = Shown("welcome", sDashes \o <<"x">>)
    /\ rendered[2] = Shown("generic_info", <<"-", "-">>)

\* get_list requests whose answer hub_client has not read yet: not answered
\* by the hub, or answered and still in the connection's buffer
Outstanding ==
    hubOut + Len(SelectSeq(hubIn, LAMBDA m : m.type = "room_list"))

\* the hub sends a room_list nobody asked for
UnsolicitedList == \E d \in Directories : HubPush(RoomListMsg(d))

\* C20: with a hub that sends a room_list only as the answer to a get_list,
\* hub_client shows the command prompt only when every get_list it has sent
\* has had its answer read: from such a prompt no step leads to a prompt
\* with a request outstanding.
C20_PromptHasNoOutstanding ==
    [][((pc = "hub_prompt" /\ Outstanding = 0 /\ ~UnsolicitedList
            /\ pc' = "hub_prompt")
        => Outstanding' = 0)]_vars

====
